---- MODULE Spec2Model ----
(***************************************************************************)
(* Model of the McpMux installer served by src/src/index.ts: the bash      *)
(* install script (installScript), the APT repository setup script        *)
(* (aptSetupScript) and the state they leave on the host.  Both scripts    *)
(* run under `set -euo pipefail`; a run is a sequence of steps, one per   *)
(* command of the script, and ends in pc = "exited" with an exit code.     *)
(***************************************************************************)
EXTENDS Integers, Sequences, FiniteSets, TLC

\* ---- bounds ----------------------------------------------------------
MaxArgs == 3
MaxSetupRuns == 2

\* ---- inputs ----------------------------------------------------------
\* command-line tokens: the recognised options, an unknown option, and
\* two version values (one of them the empty string)
Tokens == {"--version", "-v", "--skip-verify", "--help", "-h", "--bogus", "1.0", ""}
\* what `uname -m` may print
Machines == {"x86_64", "aarch64", "armv7l"}
\* tag values of the release metadata; NoTag: the response has no tag_name line
NoTag == "<none>"
Tags == {NoTag, "v0.0.12", "v", "0.0.12"}
\* non-zero exit statuses of curl and of a package manager
CurlFailCodes == {18, 22}
CmdFailCodes == {1, 100}
\* result of one download: the whole file, nothing (HTTP error, no file
\* created), or a transfer cut short (a partial file is left behind)
DownloadResults == {"ok", "fail", "partial"}

ArgSeqs == UNION {[1..n -> Tokens] : n \in 0..MaxArgs}

NoExit == -1
NotSet == "<unset>"

VARIABLES
    pc,           \* position in the running script; "idle", "exited"
    args,         \* "$@" as given
    rest,         \* "$@" as left by shift
    VERSION,      \* shell variable VERSION
    SKIP_VERIFY,  \* shell variable SKIP_VERIFY
    ARCH,         \* shell variable ARCH
    machine,      \* host: output of uname -m
    hasCurl,      \* host: curl is on PATH
    flags,        \* host: the four facts probed by the dispatcher
    probed,       \* host: the other facts probed so far (name :> BOOLEAN)
    strategy,     \* branch of the main dispatch that was entered
    outcome,      \* branch by which verify_signature returned
    log,          \* commands run so far, in order
    files,        \* files written by this run that exist on disk
    execBit,      \* the AppImage has been made executable
    setup,        \* host: runs of the setup script and the two files it writes
    http,         \* front-end: the request handled and the response sent
    installed,    \* a package-manager install command returned 0
    err,          \* fatal condition that ended the run
    exitCode      \* exit status of the process, NoExit while running

vars == <<pc, args, rest, VERSION, SKIP_VERIFY, ARCH, machine, hasCurl, flags, probed,
          strategy, outcome, log, files, execBit, setup, http, installed, err,
          exitCode>>

\* bash: a file that does not exist; JavaScript: undefined
NoFile == "<no file>"
Undefined == "<undefined>"

\* no run of the setup script yet: neither file exists
NoSetup == [runs |-> 0, arch |-> "", keys |-> <<>>, keyring |-> NoFile,
            list |-> NoFile,
            prev |-> [keyring |-> NoFile, list |-> NoFile, exit |-> NoExit,
                      root |-> FALSE]]
NoRequest == [path |-> "", ua |-> Undefined, raw |-> Undefined, resp |-> <<>>]

NoFlags == [repo |-> FALSE, apt |-> FALSE, dnf |-> FALSE, pacman |-> FALSE]
FlagSets == [repo : BOOLEAN, apt : BOOLEAN, dnf : BOOLEAN, pacman : BOOLEAN]

Init ==
    /\ pc = "idle"
    /\ args = <<>>
    /\ rest = <<>>
    /\ VERSION = ""
    /\ SKIP_VERIFY = FALSE
    /\ ARCH = ""
    /\ machine = NotSet
    /\ hasCurl = FALSE
    /\ flags = NoFlags
    /\ probed = <<>>
    /\ strategy = "None"
    /\ outcome = "None"
    /\ log = <<>>
    /\ files = {}
    /\ execBit = FALSE
    /\ setup = NoSetup
    /\ http = NoRequest
    /\ installed = FALSE
    /\ err = "None"
    /\ exitCode = NoExit

\* ---- shell helpers ---------------------------------------------------

\* fail(): message on stderr, exit 1
Fail(kind) ==
    /\ pc' = "exited"
    /\ err' = kind
    /\ exitCode' = 1

\* set -e: a failing simple command ends the script with its status
ErrExit(kind, status) ==
    /\ pc' = "exited"
    /\ err' = kind
    /\ exitCode' = status

\* set -o pipefail: status of the rightmost command that failed, else 0
RECURSIVE PipeStatus(_)
PipeStatus(st) ==
    IF st = <<>> THEN 0
    ELSE IF st[Len(st)] # 0 THEN st[Len(st)]
    ELSE PipeStatus(SubSeq(st, 1, Len(st) - 1))

Run(cmd) == log' = Append(log, cmd)

\* ---- installScript: start and argument parsing -----------------------

\* curl ... | bash -s -- args, on a host with the given machine and tools
InvokeInstaller ==
    /\ pc = "idle"
    /\ \E a \in ArgSeqs, m \in Machines, c \in BOOLEAN :
        /\ args' = a
        /\ rest' = a
        /\ machine' = m
        /\ hasCurl' = c
    /\ pc' = "parse"
    /\ UNCHANGED <<VERSION, SKIP_VERIFY, ARCH, flags, probed, strategy, outcome,
                   log, files, execBit, setup, http, installed, err, exitCode>>

\* variant: VERSION="$1" in place of VERSION="$2"
ParseVersionTakesOption ==
    /\ pc = "parse"
    /\ rest # <<>>
    /\ Head(rest) \in {"--version", "-v"}
    /\ IF Len(rest) >= 2
       THEN /\ VERSION' = rest[1]
            /\ rest' = SubSeq(rest, 3, Len(rest))
            /\ UNCHANGED <<pc, err, exitCode>>
       ELSE /\ ErrExit("UnboundVariable", 1)
            /\ UNCHANGED <<VERSION, rest>>
    /\ UNCHANGED <<args, SKIP_VERIFY, ARCH, machine, hasCurl, flags, probed,
                   strategy, outcome, log, files, execBit, setup, http, installed>>

\* --version|-v)  VERSION="$2"; shift 2     ($2 unbound under set -u: exit 1)
ParseVersion ==
    /\ pc = "parse"
    /\ rest # <<>>
    /\ Head(rest) \in {"--version", "-v"}
    /\ IF Len(rest) >= 2
       THEN /\ VERSION' = rest[2]
            /\ rest' = SubSeq(rest, 3, Len(rest))
            /\ UNCHANGED <<pc, err, exitCode>>
       ELSE /\ ErrExit("UnboundVariable", 1)
            /\ UNCHANGED <<VERSION, rest>>
    /\ UNCHANGED <<args, SKIP_VERIFY, ARCH, machine, hasCurl, flags, probed, strategy,
                   outcome, log, files, execBit, setup, http, installed>>

\* --skip-verify) SKIP_VERIFY=true; shift
ParseSkipVerify ==
    /\ pc = "parse"
    /\ rest # <<>>
    /\ Head(rest) = "--skip-verify"
    /\ SKIP_VERIFY' = TRUE
    /\ rest' = Tail(rest)
    /\ UNCHANGED <<pc, args, VERSION, ARCH, machine, hasCurl, flags, probed, strategy,
                   outcome, log, files, execBit, setup, http, installed, err, exitCode>>

\* --help|-h) echo usage; exit 0
ParseHelp ==
    /\ pc = "parse"
    /\ rest # <<>>
    /\ Head(rest) \in {"--help", "-h"}
    /\ pc' = "exited"
    /\ err' = "Help"
    /\ exitCode' = 0
    /\ UNCHANGED <<args, rest, VERSION, SKIP_VERIFY, ARCH, machine, hasCurl,
                   flags, probed, strategy, outcome, log, files, execBit, setup, http, installed>>

\* *) fail "Unknown option: $1"
ParseUnknown ==
    /\ pc = "parse"
    /\ rest # <<>>
    /\ Head(rest) \notin {"--version", "-v", "--skip-verify", "--help", "-h"}
    /\ Fail("UnknownOption")
    /\ UNCHANGED <<args, rest, VERSION, SKIP_VERIFY, ARCH, machine, hasCurl,
                   flags, probed, strategy, outcome, log, files, execBit, setup, http, installed>>

\* while [[ $# -gt 0 ]] is false: the loop ends
ParseDone ==
    /\ pc = "parse"
    /\ rest = <<>>
    /\ pc' = "need_curl"
    /\ UNCHANGED <<args, rest, VERSION, SKIP_VERIFY, ARCH, machine, hasCurl,
                   flags, probed, strategy, outcome, log, files, execBit, setup, http, installed,
                   err, exitCode>>

\* need curl
NeedCurl ==
    /\ pc = "need_curl"
    /\ IF hasCurl
       THEN /\ pc' = "arch"
            /\ UNCHANGED <<err, exitCode>>
       ELSE Fail("MissingDependency")
    /\ UNCHANGED <<args, rest, VERSION, SKIP_VERIFY, ARCH, machine, hasCurl,
                   flags, probed, strategy, outcome, log, files, execBit, setup, http, installed>>

\* variant: the default case keeps the machine name instead of failing
MapArchPassThrough(m) ==
    CASE m = "x86_64" -> "amd64"
      [] m = "aarch64" -> "arm64"
      [] OTHER -> m

\* case "$ARCH" in x86_64) amd64 ;; aarch64) arm64 ;; *) fail
MapArch(m) ==
    CASE m = "x86_64" -> "amd64"
      [] m = "aarch64" -> "arm64"
      [] OTHER -> ""

\* ARCH=$(uname -m); case ...; info "Detected architecture"
DetectArch ==
    /\ pc = "arch"
    /\ IF MapArch(machine) # ""
       THEN /\ ARCH' = MapArch(machine)
            /\ pc' = "resolve"
            /\ UNCHANGED <<err, exitCode>>
       ELSE /\ ARCH' = machine
            /\ Fail("UnsupportedArchitecture")
    /\ UNCHANGED <<args, rest, VERSION, SKIP_VERIFY, machine, hasCurl, flags, probed,
                   strategy, outcome, log, files, execBit, setup, http, installed>>

\* ---- installScript: version resolution -------------------------------

\* the line of the metadata response that carries the tag
TagLine(tag) == "  \"tag_name\": \"" \o tag \o "\","

\* grep '"tag_name"': status 0 when a line matched, 1 when none did
GrepStatus(tag) == IF tag = NoTag THEN 1 ELSE 0

\* sed 's/.*"v\([^"]*\)".*/\1/': the text between "v and the closing quote;
\* a line without "v is printed unchanged
SedTag(tag) ==
    IF Len(tag) > 0 /\ SubSeq(tag, 1, 1) = "v"
    THEN SubSeq(tag, 2, Len(tag))
    ELSE TagLine(tag)

\* VERSION=$(curl -fsSL .../releases/latest | grep '"tag_name"' | head -1 | sed ...)
\* curlStatus: exit status of curl; tag: tag of the body that was received
LatestVersion(curlStatus, tag) ==
    [status  |-> PipeStatus(<<curlStatus, GrepStatus(tag), 0, 0>>),
     version |-> IF tag = NoTag THEN "" ELSE SedTag(tag)]

\* variant: the emptiness test left out
VersionResolvedAlways(v) == TRUE

\* [[ -n "$VERSION" ]]
VersionResolved(v) == v # ""

\* if [[ -z "$VERSION" ]] is false: the given version is used
ResolveExplicit ==
    /\ pc = "resolve"
    /\ VERSION # ""
    /\ pc' = "dispatch"
    /\ UNCHANGED <<args, rest, VERSION, SKIP_VERIFY, ARCH, machine, hasCurl,
                   flags, probed, strategy, outcome, log, files, execBit, setup, http, installed,
                   err, exitCode>>

\* if [[ -z "$VERSION" ]]: ask the latest-release endpoint.  A failing
\* pipeline ends the script through set -e with the pipeline's status and
\* no message; an empty result ends it through fail.
FetchLatest ==
    /\ pc = "resolve"
    /\ VERSION = ""
    /\ Run("curl:metadata")
    /\ \E c \in {0} \cup CurlFailCodes, tag \in Tags :
        /\ (c = 22 => tag = NoTag)
        /\ LET r == LatestVersion(c, tag) IN
           IF r.status # 0
           THEN /\ ErrExit("ReleaseNotFound", r.status)
                /\ UNCHANGED VERSION
           ELSE /\ VERSION' = r.version
                /\ IF VersionResolved(r.version)
                   THEN /\ pc' = "dispatch"
                        /\ UNCHANGED <<err, exitCode>>
                   ELSE Fail("ReleaseNotFound")
    /\ UNCHANGED <<args, rest, SKIP_VERIFY, ARCH, machine, hasCurl, flags, probed,
                   strategy, outcome, files, execBit, setup, http, installed>>

\* ---- installScript: main dispatch ------------------------------------

\* variant: the dnf test placed before the apt-get test
SelectStrategyDnfFirst(f) ==
    IF f.repo THEN "ManagedRepo"
    ELSE IF f.dnf THEN "Dnf"
    ELSE IF f.apt THEN "AptGet"
    ELSE IF f.pacman THEN "PacmanAUR"
    ELSE "AppImageFallback"

\* variant: the apt-get test placed before the repository file test
SelectStrategyAptFirst(f) ==
    IF f.apt THEN "AptGet"
    ELSE IF f.repo THEN "ManagedRepo"
    ELSE IF f.dnf THEN "Dnf"
    ELSE IF f.pacman THEN "PacmanAUR"
    ELSE "AppImageFallback"

\* if [[ -f .../mcpmux.list ]] ... elif apt-get ... elif dnf ... elif pacman ... else
SelectStrategy(f) ==
    IF f.repo THEN "ManagedRepo"
    ELSE IF f.apt THEN "AptGet"
    ELSE IF f.dnf THEN "Dnf"
    ELSE IF f.pacman THEN "PacmanAUR"
    ELSE "AppImageFallback"

\* first command of each branch
FirstStep(s) ==
    CASE s = "ManagedRepo" -> "repo_update"
      [] s = "AptGet" -> "deb_download"
      [] s = "Dnf" -> "rpm_download"
      [] s = "PacmanAUR" -> "pacman"
      [] s = "AppImageFallback" -> "appimage_mkdir"

Dispatch ==
    /\ pc = "dispatch"
    /\ \E f \in FlagSets :
        /\ flags' = f
        /\ strategy' = SelectStrategy(f)
        /\ pc' = FirstStep(SelectStrategy(f))
    /\ UNCHANGED <<args, rest, VERSION, SKIP_VERIFY, ARCH, machine, hasCurl,
                   probed, outcome, log, files, execBit, setup, http, installed, err, exitCode>>

\* the request context: fixed once the dispatcher has chosen
ctx == <<args, rest, VERSION, SKIP_VERIFY, ARCH, machine, hasCurl, flags, strategy>>

\* local tmp= / install_path= of each downloading branch
LocalPath(s) ==
    CASE s = "AptGet" -> "/tmp/mcpmux.deb"
      [] s = "Dnf" -> "/tmp/mcpmux.rpm"
      [] OTHER -> "~/.local/bin/McpMux.AppImage"

\* local sig_file="${file}.sig"
SigPath(s) == LocalPath(s) \o ".sig"

\* variant: a failed download is tried a second time before giving up
DownloadRetry(cmd, path, next) ==
    \E r1 \in DownloadResults, r2 \in DownloadResults :
        LET r == IF r1 = "ok" THEN r1 ELSE r2 IN
        /\ log' = IF r1 = "ok" THEN Append(log, cmd) ELSE log \o <<cmd, cmd>>
        /\ files' = IF r1 = "fail" /\ r2 = "fail" THEN files ELSE files \cup {path}
        /\ IF r = "ok"
           THEN /\ pc' = next
                /\ UNCHANGED <<err, exitCode>>
           ELSE Fail("DownloadFailed")

\* curl -fsSL -o "$tmp" "$url" || fail "Download failed: $url"
Download(cmd, path, next) ==
    /\ Run(cmd)
    /\ \E r \in DownloadResults :
        /\ files' = IF r = "fail" THEN files ELSE files \cup {path}
        /\ IF r = "ok"
           THEN /\ pc' = next
                /\ UNCHANGED <<err, exitCode>>
           ELSE Fail("DownloadFailed")

\* ---- verify_signature -------------------------------------------------

\* the command that follows verify_signature in each caller
AfterVerify(s) ==
    CASE s = "AptGet" -> "deb_install"
      [] s = "Dnf" -> "rpm_install"
      [] OTHER -> "appimage_chmod"

\* variant: the warning without the return, on a host with gpg
VerifySkippedNoReturn ==
    /\ pc = "verify"
    /\ SKIP_VERIFY
    /\ outcome' = "SkippedByFlag"
    /\ pc' = "sig_download"
    /\ UNCHANGED <<ctx, probed, log, files, execBit, setup, http, installed, err, exitCode>>

\* if [[ "$SKIP_VERIFY" == "true" ]]; then warn; return 0
VerifySkipped ==
    /\ pc = "verify"
    /\ SKIP_VERIFY
    /\ outcome' = "SkippedByFlag"
    /\ pc' = AfterVerify(strategy)
    /\ UNCHANGED <<ctx, probed, log, files, execBit, setup, http, installed, err, exitCode>>

\* if ! command -v gpg; then warn; return 0
VerifyProbeGpg ==
    /\ pc = "verify"
    /\ ~SKIP_VERIFY
    /\ \E g \in BOOLEAN :
        /\ probed' = probed @@ ("gpg" :> g)
        /\ IF g
           THEN /\ pc' = "sig_download"
                /\ UNCHANGED outcome
           ELSE /\ pc' = AfterVerify(strategy)
                /\ outcome' = "SkippedNoTool"
    /\ UNCHANGED <<ctx, log, files, execBit, setup, http, installed, err, exitCode>>

\* if curl -fsSL -o "$sig_file" "$sig_url"; then ... else warn "No signature file found"
SigDownload ==
    /\ pc = "sig_download"
    /\ Run("curl:signature")
    /\ \E r \in DownloadResults :
        /\ files' = IF r = "fail" THEN files ELSE files \cup {SigPath(strategy)}
        /\ IF r = "ok"
           THEN /\ pc' = "key_check"
                /\ UNCHANGED outcome
           ELSE /\ pc' = AfterVerify(strategy)
                /\ outcome' = "SkippedNoSignature"
    /\ UNCHANGED <<ctx, probed, execBit, setup, http, installed, err, exitCode>>

\* if ! gpg --list-keys hello@mcpmux.com; then curl .../key.gpg | gpg --import || true; fi
KeyCheck ==
    /\ pc = "key_check"
    /\ \E have \in BOOLEAN :
        /\ probed' = probed @@ ("key" :> have)
        /\ IF have THEN UNCHANGED log ELSE Run("curl:key")
    /\ pc' = "gpg_verify"
    /\ UNCHANGED <<ctx, outcome, files, execBit, setup, http, installed, err, exitCode>>

\* variant: gpg --verify as a plain command, so that set -e applies to it
GpgVerifyUnchecked ==
    /\ pc = "gpg_verify"
    /\ \E good \in BOOLEAN :
        IF good
        THEN /\ outcome' = "Verified"
             /\ log' = log \o <<"gpg:verify", "rm:sig">>
             /\ files' = files \ {SigPath(strategy)}
             /\ pc' = AfterVerify(strategy)
             /\ UNCHANGED <<err, exitCode>>
        ELSE /\ outcome' = "FailedSoft"
             /\ Run("gpg:verify")
             /\ ErrExit("VerifyFailed", 1)
             /\ UNCHANGED files
    /\ UNCHANGED <<ctx, probed, execBit, setup, http, installed>>

\* if gpg --verify "$sig_file" "$file"; then ok; else warn; fi; rm -f "$sig_file"
GpgVerify ==
    /\ pc = "gpg_verify"
    /\ \E good \in BOOLEAN :
        outcome' = IF good THEN "Verified" ELSE "FailedSoft"
    /\ log' = log \o <<"gpg:verify", "rm:sig">>
    /\ files' = files \ {SigPath(strategy)}
    /\ pc' = AfterVerify(strategy)
    /\ UNCHANGED <<ctx, probed, execBit, setup, http, installed, err, exitCode>>

\* ---- install_deb ------------------------------------------------------

\* variant: apt-get install right after the download, verify_signature left out
DebDownloadSkipsVerify ==
    /\ pc = "deb_download"
    /\ Download("curl:deb", LocalPath("AptGet"), "deb_install")
    /\ UNCHANGED <<ctx, probed, outcome, execBit, setup, http, installed>>

DebDownload ==
    /\ pc = "deb_download"
    /\ Download("curl:deb", LocalPath("AptGet"), "verify")
    /\ UNCHANGED <<ctx, probed, outcome, execBit, setup, http, installed>>

\* sudo apt-get install -y "$tmp"; rm -f "$tmp"   (set -e ends the run
\* before rm when apt-get fails)
DebInstall ==
    /\ pc = "deb_install"
    /\ \E st \in {0} \cup CmdFailCodes :
        IF st = 0
        THEN /\ log' = log \o <<"apt-get:install-file", "rm:pkg">>
             /\ files' = files \ {LocalPath("AptGet")}
             /\ installed' = TRUE
             /\ pc' = "success"
             /\ UNCHANGED <<err, exitCode>>
        ELSE /\ Run("apt-get:install-file")
             /\ ErrExit("InstallFailed", st)
             /\ UNCHANGED <<files, installed>>
    /\ UNCHANGED <<ctx, probed, outcome, execBit, setup, http>>

\* ---- install_rpm ------------------------------------------------------

RpmDownload ==
    /\ pc = "rpm_download"
    /\ Download("curl:rpm", LocalPath("Dnf"), "verify")
    /\ UNCHANGED <<ctx, probed, outcome, execBit, setup, http, installed>>

\* sudo dnf install -y "$tmp"; rm -f "$tmp"
RpmInstall ==
    /\ pc = "rpm_install"
    /\ \E st \in {0} \cup CmdFailCodes :
        IF st = 0
        THEN /\ log' = log \o <<"dnf:install-file", "rm:pkg">>
             /\ files' = files \ {LocalPath("Dnf")}
             /\ installed' = TRUE
             /\ pc' = "success"
             /\ UNCHANGED <<err, exitCode>>
        ELSE /\ Run("dnf:install-file")
             /\ ErrExit("InstallFailed", st)
             /\ UNCHANGED <<files, installed>>
    /\ UNCHANGED <<ctx, probed, outcome, execBit, setup, http>>

\* ---- install_pacman ---------------------------------------------------

\* variant: no exit 1 after the instructions, the run goes on to the
\* AppImage branch
InstallPacmanFallThrough ==
    /\ pc = "pacman"
    /\ \E yay \in BOOLEAN, paru \in BOOLEAN, st \in {0} \cup CmdFailCodes :
        /\ probed' = probed @@ ("yay" :> yay) @@ ("paru" :> paru)
        /\ IF yay \/ paru
           THEN /\ Run(IF yay THEN "yay:install" ELSE "paru:install")
                /\ IF st = 0
                   THEN /\ installed' = TRUE
                        /\ pc' = "success"
                        /\ UNCHANGED <<err, exitCode>>
                   ELSE /\ ErrExit("InstallFailed", st)
                        /\ UNCHANGED installed
           ELSE /\ st = 0
                /\ pc' = "appimage_mkdir"
                /\ UNCHANGED <<log, installed, err, exitCode>>
    /\ UNCHANGED <<ctx, outcome, files, execBit, setup, http>>

\* variant: paru tested before yay
InstallPacmanParuFirst ==
    /\ pc = "pacman"
    /\ \E yay \in BOOLEAN, paru \in BOOLEAN, st \in {0} \cup CmdFailCodes :
        /\ probed' = probed @@ ("yay" :> yay) @@ ("paru" :> paru)
        /\ IF yay \/ paru
           THEN /\ Run(IF paru THEN "paru:install" ELSE "yay:install")
                /\ IF st = 0
                   THEN /\ installed' = TRUE
                        /\ pc' = "success"
                        /\ UNCHANGED <<err, exitCode>>
                   ELSE /\ ErrExit("InstallFailed", st)
                        /\ UNCHANGED installed
           ELSE /\ st = 0
                /\ Fail("NoAurHelper")
                /\ UNCHANGED <<log, installed>>
    /\ UNCHANGED <<ctx, outcome, files, execBit, setup, http>>

\* if yay: yay -S mcpmux-bin; elif paru: paru -S mcpmux-bin; else instructions, exit 1
InstallPacman ==
    /\ pc = "pacman"
    /\ \E yay \in BOOLEAN, paru \in BOOLEAN, st \in {0} \cup CmdFailCodes :
        /\ probed' = probed @@ ("yay" :> yay) @@ ("paru" :> paru)
        /\ IF yay \/ paru
           THEN /\ Run(IF yay THEN "yay:install" ELSE "paru:install")
                /\ IF st = 0
                   THEN /\ installed' = TRUE
                        /\ pc' = "success"
                        /\ UNCHANGED <<err, exitCode>>
                   ELSE /\ ErrExit("InstallFailed", st)
                        /\ UNCHANGED installed
           ELSE /\ st = 0
                /\ Fail("NoAurHelper")
                /\ UNCHANGED <<log, installed>>
    /\ UNCHANGED <<ctx, outcome, files, execBit, setup, http>>

\* ---- install_appimage -------------------------------------------------

\* local install_dir="${HOME}/.local/bin", with HOME=/home/u
InstallDir == "/home/u/.local/bin"

\* directories that $PATH may list
PathEntries == {"/usr/bin", "/home/u/.local/bin", "/home/u/xlocal/bin"}

\* grep -x PATTERN on one line: the pattern is a regular expression that
\* must match the whole line; a dot matches any character, the other
\* characters of a directory name match themselves
LineMatches(pattern, line) ==
    /\ Len(pattern) = Len(line)
    /\ \A i \in 1..Len(pattern) :
          \/ SubSeq(pattern, i, i) = "."
          \/ SubSeq(pattern, i, i) = SubSeq(line, i, i)

\* echo "$PATH" | tr ':' '\n' | grep -qx "$install_dir": some entry matches
GrepQX(pattern, entries) == \E e \in entries : LineMatches(pattern, e)

\* mkdir -p "$install_dir"
AppImageMkdir ==
    /\ pc = "appimage_mkdir"
    /\ Run("mkdir")
    /\ pc' = "appimage_download"
    /\ UNCHANGED <<ctx, probed, outcome, files, execBit, setup, http, installed, err, exitCode>>

AppImageDownload ==
    /\ pc = "appimage_download"
    /\ Download("curl:appimage", LocalPath("AppImageFallback"), "verify")
    /\ UNCHANGED <<ctx, probed, outcome, execBit, setup, http, installed>>

\* chmod +x "$install_path"; if ! echo "$PATH" | tr ':' '\n' | grep -qx "$install_dir": warn
AppImageChmod ==
    /\ pc = "appimage_chmod"
    /\ execBit' = TRUE
    /\ installed' = TRUE
    /\ \E P \in SUBSET PathEntries :
        /\ probed' = probed @@ ("inPath" :> (InstallDir \in P))
        /\ log' = IF GrepQX(InstallDir, P) THEN Append(log, "chmod")
                  ELSE log \o <<"chmod", "warn:path">>
    /\ pc' = "success"
    /\ UNCHANGED <<ctx, outcome, files, setup, http, err, exitCode>>

\* ---- managed repository branch ---------------------------------------

\* sudo apt-get update && ...: a failing left side of && does not trigger
\* set -e; the list, and with it the if command, just ends
RepoUpdate ==
    /\ pc = "repo_update"
    /\ Run("apt-get:update")
    /\ \E st \in {0} \cup CmdFailCodes :
        pc' = IF st = 0 THEN "repo_install" ELSE "success"
    /\ UNCHANGED <<ctx, probed, outcome, files, execBit, setup, http, installed, err, exitCode>>

\* ... && sudo apt-get install -y mcpmux
RepoInstall ==
    /\ pc = "repo_install"
    /\ Run("apt-get:install-name")
    /\ \E st \in {0} \cup CmdFailCodes :
        IF st = 0
        THEN /\ installed' = TRUE
             /\ pc' = "success"
             /\ UNCHANGED <<err, exitCode>>
        ELSE /\ ErrExit("InstallFailed", st)
             /\ UNCHANGED installed
    /\ UNCHANGED <<ctx, probed, outcome, files, execBit, setup, http>>

\* ok "McpMux installed successfully!"; end of script
Success ==
    /\ pc = "success"
    /\ Run("echo:success")
    /\ pc' = "exited"
    /\ exitCode' = 0
    /\ UNCHANGED <<ctx, probed, outcome, files, execBit, setup, http, installed, err>>

\* ---- aptSetupScript ---------------------------------------------------

KeyringPath == "/usr/share/keyrings/mcpmux-archive-keyring.gpg"
SourceListPath == "/etc/apt/sources.list.d/mcpmux.list"

\* keys that https://apt.mcpmux.com/key.gpg may serve (ASCII armor), and
\* what dpkg --print-architecture may print
ServedKeys == {"asc:K1", "asc:K2"}
DpkgArchs == {"amd64", "arm64"}

\* gpg --dearmor: the binary form of an armored key
Dearmor(a) == "bin:" \o SubSeq(a, 5, Len(a))

\* gpg --dearmor -o FILE: when FILE exists gpg asks on /dev/tty whether to
\* overwrite it; without a terminal, or when the answer is no, it exits 2
\* and leaves FILE as it is.  Input that is not a key gives an empty FILE
\* and status 2.
GpgDearmor(existing, data, valid, confirm) ==
    IF existing # NoFile /\ ~confirm
    THEN [status |-> 2, content |-> existing]
    ELSE IF valid
    THEN [status |-> 0, content |-> Dearmor(data)]
    ELSE [status |-> 2, content |-> ""]

\* the line written to mcpmux.list
SourceLine(arch) ==
    "deb [arch=" \o arch \o " signed-by=" \o KeyringPath
        \o "] https://apt.mcpmux.com stable main"

\* curl -fsSL https://install.mcpmux.com/apt | sudo bash; a further run may
\* follow one that has ended, on the same host
InvokeAptSetup ==
    /\ \/ pc = "idle"
       \/ pc = "exited" /\ setup.runs \in 1..(MaxSetupRuns - 1)
    /\ \E root \in BOOLEAN, key \in ServedKeys, a \in DpkgArchs :
        /\ setup.runs > 0 => a = setup.arch
        /\ probed' = ("root" :> root)
        /\ setup' = [runs |-> setup.runs + 1,
                     arch |-> a,
                     keys |-> Append(setup.keys, key),
                     keyring |-> setup.keyring,
                     list |-> setup.list,
                     prev |-> [keyring |-> setup.keyring,
                               list |-> setup.list,
                               exit |-> exitCode,
                               root |-> IF setup.runs > 0 THEN probed["root"]
                                        ELSE FALSE]]
    /\ pc' = "setup_root"
    /\ log' = <<>>
    /\ files' = {}
    /\ installed' = FALSE
    /\ err' = "None"
    /\ exitCode' = NoExit
    /\ UNCHANGED <<ctx, outcome, execBit, http>>

\* variant: the root test only warns and the script goes on
SetupRootCheckWarnOnly ==
    /\ pc = "setup_root"
    /\ pc' = "setup_key"
    /\ UNCHANGED <<ctx, probed, outcome, log, files, execBit, setup, http, installed, err, exitCode>>

\* [[ $(id -u) -eq 0 ]] || fail "This script must be run as root"
SetupRootCheck ==
    /\ pc = "setup_root"
    /\ IF probed["root"]
       THEN /\ pc' = "setup_key"
            /\ UNCHANGED <<err, exitCode>>
       ELSE Fail("PermissionDenied")
    /\ UNCHANGED <<ctx, probed, outcome, log, files, execBit, setup, http, installed>>

\* curl -fsSL https://apt.mcpmux.com/key.gpg | gpg --dearmor -o keyring
SetupAddKey ==
    /\ pc = "setup_key"
    /\ Run("curl:key")
    /\ \E c \in {0} \cup CurlFailCodes, valid \in BOOLEAN, confirm \in BOOLEAN :
        /\ c = 22 => ~valid
        /\ setup.keyring = NoFile => confirm
        /\ LET g == GpgDearmor(setup.keyring, setup.keys[setup.runs], valid, confirm)
           IN /\ setup' = [setup EXCEPT !.keyring = g.content]
              /\ files' = IF confirm THEN files \cup {KeyringPath} ELSE files
              /\ probed' = probed @@ ("keyOk" :> (c = 0 /\ valid))
              /\ IF PipeStatus(<<c, g.status>>) = 0
                 THEN /\ pc' = "setup_source"
                      /\ UNCHANGED <<err, exitCode>>
                 ELSE ErrExit("KeyImportFailed", PipeStatus(<<c, g.status>>))
    /\ UNCHANGED <<ctx, outcome, execBit, http, installed>>

\* echo "deb [arch=$(dpkg --print-architecture) signed-by=...] ..." > mcpmux.list
SetupAddSource ==
    /\ pc = "setup_source"
    /\ setup' = [setup EXCEPT !.list = SourceLine(setup.arch)]
    /\ files' = files \cup {SourceListPath}
    /\ pc' = "setup_update"
    /\ UNCHANGED <<ctx, probed, outcome, log, execBit, http, installed, err, exitCode>>

\* apt-get update
SetupUpdate ==
    /\ pc = "setup_update"
    /\ Run("apt-get:update")
    /\ \E st \in {0} \cup CmdFailCodes :
        IF st = 0
        THEN /\ pc' = "setup_install"
             /\ UNCHANGED <<err, exitCode>>
        ELSE ErrExit("UpdateFailed", st)
    /\ UNCHANGED <<ctx, probed, outcome, files, execBit, setup, http, installed>>

\* apt-get install -y mcpmux; ok "McpMux installed!"; end of script
SetupInstall ==
    /\ pc = "setup_install"
    /\ Run("apt-get:install-name")
    /\ \E st \in {0} \cup CmdFailCodes :
        IF st = 0
        THEN /\ installed' = TRUE
             /\ pc' = "exited"
             /\ exitCode' = 0
             /\ UNCHANGED err
        ELSE /\ ErrExit("InstallFailed", st)
             /\ UNCHANGED installed
    /\ UNCHANGED <<ctx, probed, outcome, files, execBit, setup, http>>

\* ---- the HTTP front-end ----

\* User-Agent header values and raw query values a request may carry;
\* Undefined is an absent header or parameter, "" is ?raw or ?raw=
UserAgents == {Undefined, "", "curl/8.5.0", "Wget/1.21", "Mozilla/5.0",
               "Chrome/120", "Safari/605", "mozilla/5.0"}
RawValues == {Undefined, "", "1", "0", "false"}

\* String.prototype.includes
Includes(str, sub) ==
    \E i \in 1..(Len(str) - Len(sub) + 1) : SubSeq(str, i, i + Len(sub) - 1) = sub

\* c.req.header('User-Agent') ?? ''
HeaderOrEmpty(h) == IF h = Undefined THEN "" ELSE h

\* variant: only Mozilla marks a browser
IsBrowserMozillaOnly(ua) == Includes(ua, "Mozilla")

\* ua.includes('Mozilla') || ua.includes('Chrome') || ua.includes('Safari')
IsBrowser(ua) ==
    Includes(ua, "Mozilla") \/ Includes(ua, "Chrome") \/ Includes(ua, "Safari")

\* JavaScript truthiness of a query value: undefined and '' are falsy
Truthy(v) == v # Undefined /\ v # ""

\* c.html(landingPage())
LandingResponse ==
    [status |-> 200, type |-> "text/html; charset=UTF-8", cache |-> "",
     body |-> "landingPage()"]

\* c.newResponse(installScript(), {headers}) of app.get('/')
RootScriptResponse ==
    [status |-> 200, type |-> "text/plain; charset=utf-8",
     cache |-> "public, max-age=300", body |-> "installScript()"]

\* c.newResponse(installScript(), {headers}) of app.get('/install.sh')
InstallShResponse ==
    [status |-> 200, type |-> "text/plain; charset=utf-8",
     cache |-> "public, max-age=300", body |-> "installScript()"]

\* c.newResponse(aptSetupScript(), {headers})
AptResponse ==
    [status |-> 200, type |-> "text/plain; charset=utf-8",
     cache |-> "public, max-age=300", body |-> "aptSetupScript()"]

\* c.json({ status: 'ok', service: 'mcpmux-install' })
HealthResponse ==
    [status |-> 200, type |-> "application/json", cache |-> "",
     body |-> "{status:ok,service:mcpmux-install}"]

\* c.text('Not found. ...', 404)
NotFoundResponse ==
    [status |-> 404, type |-> "text/plain; charset=UTF-8", cache |-> "",
     body |-> "Not found."]

\* a handler answers one request
Respond(path, ua, raw, resp) ==
    /\ http' = [path |-> path, ua |-> ua, raw |-> raw, resp |-> resp]
    /\ pc' = "responded"
    /\ UNCHANGED <<ctx, probed, outcome, log, files, execBit, setup, installed, err, exitCode>>

\* app.get('/')
GetRoot ==
    /\ pc = "idle"
    /\ \E h \in UserAgents, raw \in RawValues :
        LET ua == HeaderOrEmpty(h)
            isBrowser == IsBrowser(ua)
        IN IF isBrowser /\ ~Truthy(raw)
           THEN Respond("/", h, raw, LandingResponse)
           ELSE Respond("/", h, raw, RootScriptResponse)

\* app.get('/install.sh')
GetInstallSh ==
    /\ pc = "idle"
    /\ \E h \in UserAgents, raw \in RawValues :
        Respond("/install.sh", h, raw, InstallShResponse)

\* app.get('/apt')
GetApt ==
    /\ pc = "idle"
    /\ \E h \in UserAgents : Respond("/apt", h, Undefined, AptResponse)

\* app.get('/health')
GetHealth ==
    /\ pc = "idle"
    /\ \E h \in UserAgents : Respond("/health", h, Undefined, HealthResponse)

\* app.notFound
NotFound ==
    /\ pc = "idle"
    /\ \E h \in UserAgents, path \in {"/install", "/apt/"} :
        Respond(path, h, Undefined, NotFoundResponse)

\* ---- specification ---------------------------------------------------

Next ==
    \/ InvokeInstaller
    \/ ParseVersion
    \/ ParseSkipVerify
    \/ ParseHelp
    \/ ParseUnknown
    \/ ParseDone
    \/ NeedCurl
    \/ DetectArch
    \/ ResolveExplicit
    \/ FetchLatest
    \/ Dispatch
    \/ VerifySkipped
    \/ VerifyProbeGpg
    \/ SigDownload
    \/ KeyCheck
    \/ GpgVerify
    \/ DebDownload
    \/ DebInstall
    \/ RpmDownload
    \/ RpmInstall
    \/ InstallPacman
    \/ AppImageMkdir
    \/ AppImageDownload
    \/ AppImageChmod
    \/ RepoUpdate
    \/ RepoInstall
    \/ Success
    \/ InvokeAptSetup
    \/ SetupRootCheck
    \/ SetupAddKey
    \/ SetupAddSource
    \/ SetupUpdate
    \/ SetupInstall
    \/ GetRoot
    \/ GetInstallSh
    \/ GetApt
    \/ GetHealth
    \/ NotFound

Spec == Init /\ [][Next]_vars

\* ---- vocabulary of the properties -----------------------------------

InLog(c) == \E i \in DOMAIN log : log[i] = c

NetCalls == {"curl:metadata", "curl:deb", "curl:rpm", "curl:appimage",
             "curl:signature", "curl:key"}

NoNetCalls == \A i \in DOMAIN log : log[i] \notin NetCalls

Downloading == {"AptGet", "Dnf", "AppImageFallback"}

VerifyPcs == {"verify", "sig_download", "key_check", "gpg_verify"}

\* the strategy a command belongs to; "Shared" for the commands of the
\* resolver, of verify_signature and of the final message
Owner(cmd) ==
    CASE cmd \in {"apt-get:update", "apt-get:install-name"} -> "ManagedRepo"
      [] cmd \in {"curl:deb", "apt-get:install-file"} -> "AptGet"
      [] cmd \in {"curl:rpm", "dnf:install-file"} -> "Dnf"
      [] cmd \in {"yay:install", "paru:install"} -> "PacmanAUR"
      [] cmd \in {"mkdir", "curl:appimage", "chmod", "warn:path"} -> "AppImageFallback"
      [] OTHER -> "Shared"

\* the strategy a position of the script belongs to
PcOwner(p) ==
    CASE p \in {"repo_update", "repo_install"} -> "ManagedRepo"
      [] p \in {"deb_download", "deb_install"} -> "AptGet"
      [] p \in {"rpm_download", "rpm_install"} -> "Dnf"
      [] p = "pacman" -> "PacmanAUR"
      [] p \in {"appimage_mkdir", "appimage_download", "appimage_chmod"} -> "AppImageFallback"
      [] OTHER -> "Shared"

Precedence == <<"ManagedRepo", "AptGet", "Dnf", "PacmanAUR">>

FlagOf(f, s) ==
    CASE s = "ManagedRepo" -> f.repo
      [] s = "AptGet" -> f.apt
      [] s = "Dnf" -> f.dnf
      [] s = "PacmanAUR" -> f.pacman

\* the first strategy of the precedence order whose flag is true
FirstTrue(f) ==
    IF \E i \in 1..4 : FlagOf(f, Precedence[i])
    THEN Precedence[CHOOSE i \in 1..4 :
                        /\ FlagOf(f, Precedence[i])
                        /\ \A j \in 1..(i - 1) : ~FlagOf(f, Precedence[j])]
    ELSE "AppImageFallback"

\* the value of the last --version/-v option that the command line gives
RECURSIVE GivenVersion(_)
GivenVersion(a) ==
    IF a = <<>> THEN NotSet
    ELSE IF Head(a) \in {"--version", "-v"} /\ Len(a) >= 2
    THEN LET later == GivenVersion(SubSeq(a, 3, Len(a)))
         IN IF later = NotSet THEN a[2] ELSE later
    ELSE IF Head(a) = "--skip-verify" THEN GivenVersion(Tail(a))
    ELSE NotSet

\* ---- properties -------------------------------------------------------

\* C1: a run that reaches the dispatcher enters exactly one branch: the
\* first of ManagedRepo, AptGet, Dnf, PacmanAUR whose flag is true, and
\* AppImageFallback iff all four flags are false, whatever the rest of
\* the state is.
C1_Dispatch ==
    strategy # "None" =>
        /\ strategy = FirstTrue(flags)
        /\ (strategy = "AppImageFallback") <=>
               (~flags.repo /\ ~flags.apt /\ ~flags.dnf /\ ~flags.pacman)
        /\ PcOwner(pc) \in {"Shared", FirstTrue(flags)}

C1_Witness ==
    /\ flags.apt /\ flags.dnf /\ ~flags.repo
    /\ strategy = "AptGet"
    /\ pc = "deb_download"

\* C2 (as stated): on a machine other than x86_64 and aarch64 every run,
\* whatever its arguments and tools, ends with UnsupportedArchitecture and
\* exit code 1 and has made no network call.
C2_Original ==
    (machine \notin {NotSet, "x86_64", "aarch64"} /\ pc = "exited") =>
        /\ err = "UnsupportedArchitecture"
        /\ exitCode = 1
        /\ NoNetCalls

\* C2 (amended): on a machine other than x86_64 and aarch64 no network call
\* is ever made, the run never gets past architecture detection, and it
\* ends with UnsupportedArchitecture and exit code 1 unless it ended
\* earlier, in argument parsing or at the curl check.
C2_Amended ==
    machine \notin {NotSet, "x86_64", "aarch64"} =>
        /\ NoNetCalls
        /\ pc \in {"parse", "need_curl", "arch", "exited"}
        /\ (pc = "exited" /\ err \notin {"Help", "UnknownOption",
                                         "UnboundVariable", "MissingDependency"})
              => (err = "UnsupportedArchitecture" /\ exitCode = 1)

C2_Witness ==
    /\ machine = "armv7l"
    /\ pc = "exited"
    /\ err = "UnsupportedArchitecture"
    /\ exitCode = 1
    /\ SKIP_VERIFY

\* C3 (as stated): when a version is given with --version or -v, whatever
\* its value, the metadata endpoint is never contacted and the version the
\* strategies use is that value.
C3_Original ==
    GivenVersion(args) # NotSet =>
        /\ ~InLog("curl:metadata")
        /\ strategy # "None" => VERSION = GivenVersion(args)

\* C3 (amended): when a non-empty version is given with --version or -v,
\* the metadata endpoint is never contacted and the version the strategies
\* use is that value.
C3_Amended ==
    GivenVersion(args) \notin {NotSet, ""} =>
        /\ ~InLog("curl:metadata")
        /\ strategy # "None" => VERSION = GivenVersion(args)

C3_Witness ==
    /\ GivenVersion(args) = "1.0"
    /\ VERSION = "1.0"
    /\ strategy # "None"
    /\ pc = "exited"
    /\ exitCode = 0

\* C4: whenever a strategy has started, the resolved version is not the
\* empty string, whether it came from the command line or from the
\* metadata endpoint.
C4_VersionNonEmpty ==
    strategy # "None" => VERSION # ""

C4_Witness ==
    /\ strategy # "None"
    /\ InLog("curl:metadata")
    /\ VERSION = "0.0.12"

\* C5: no step of verify_signature ends the run: from inside verification
\* every step stays in it or returns to the install step of the caller.
C5_VerifyNeverFatal ==
    [][(pc \in VerifyPcs) =>
          (pc' \in VerifyPcs \cup {AfterVerify(strategy)} /\ exitCode' = NoExit)]_vars

C5_Witness ==
    /\ outcome = "FailedSoft"
    /\ pc = "deb_install"
    /\ "key" \in DOMAIN probed /\ ~probed["key"]

\* C6: with SKIP_VERIFY set, the signature and key endpoints are never
\* requested and verification returns with SkippedByFlag.
C6_SkipVerify ==
    SKIP_VERIFY =>
        /\ ~InLog("curl:signature")
        /\ ~InLog("curl:key")
        /\ outcome \in {"None", "SkippedByFlag"}
        /\ (strategy \in Downloading /\ pc = AfterVerify(strategy))
              => outcome = "SkippedByFlag"

C6_Witness ==
    /\ SKIP_VERIFY
    /\ outcome = "SkippedByFlag"
    /\ pc = "rpm_install"

\* C7: when an AptGet or Dnf run has attempted the install command and the
\* process has ended, the temporary package file does not exist.
C7_TempRemoved ==
    (/\ strategy \in {"AptGet", "Dnf"}
     /\ pc = "exited"
     /\ (InLog("apt-get:install-file") \/ InLog("dnf:install-file")))
        => LocalPath(strategy) \notin files

\* C8: an AptGet or Dnf run that exits with code 0 has passed the package
\* file to the install command and deleted it, and leaves neither the
\* package file nor a signature file behind.
C8_NothingLeft ==
    (strategy \in {"AptGet", "Dnf"} /\ pc = "exited" /\ exitCode = 0) =>
        /\ InLog("apt-get:install-file") \/ InLog("dnf:install-file")
        /\ InLog("rm:pkg")
        /\ files \cap {LocalPath(strategy), SigPath(strategy)} = {}

ListedFatal == {"UnknownOption", "MissingDependency", "UnsupportedArchitecture",
                "ReleaseNotFound", "DownloadFailed", "NoAurHelper",
                "PermissionDenied"}

\* C9: every listed fatal condition ends the run with exit code 1, and
\* exit code 0 occurs only after a successful install or --help.
C9_ExitCodes ==
    pc = "exited" =>
        /\ err \in ListedFatal => exitCode = 1
        /\ exitCode = 0 => (err = "Help" \/ installed)

\* C10: once a strategy is selected, every strategy-specific command of
\* the run belongs to it; a failure inside it ends the run.
C10_NoFallback ==
    strategy # "None" =>
        /\ \A i \in DOMAIN log : Owner(log[i]) \in {"Shared", strategy}
        /\ err \in {"DownloadFailed", "NoAurHelper", "InstallFailed"} => pc = "exited"

C10_Witness ==
    /\ strategy = "PacmanAUR"
    /\ err = "NoAurHelper"
    /\ pc = "exited"
    /\ exitCode = 1

ArtifactCalls == {"curl:deb", "curl:rpm", "curl:appimage"}

VerifyCmds == {"curl:signature", "curl:key", "gpg:verify", "rm:sig"}

Count(c) == Cardinality({i \in DOMAIN log : log[i] = c})

\* C11: in one run every network operation is attempted at most once, and
\* a failed artifact download ends the run with DownloadFailed right after
\* its single attempt.
C11_NoRetry ==
    /\ \A c \in NetCalls : Count(c) <= 1
    /\ Cardinality({i \in DOMAIN log : log[i] \in ArtifactCalls}) <= 1
    /\ err = "DownloadFailed" =>
          (pc = "exited" /\ exitCode = 1 /\ log[Len(log)] \in ArtifactCalls)

C11_Witness ==
    /\ err = "DownloadFailed"
    /\ Count("curl:metadata") = 1
    /\ Count("curl:appimage") = 1

\* C12: once verify_signature has returned, whatever its outcome, the
\* signature file does not exist.
C12_SigRemoved ==
    (strategy \in Downloading /\ outcome # "None") =>
        SigPath(strategy) \notin files

\* the download command and the install commands of a strategy
ArtifactCmd(s) ==
    CASE s = "AptGet" -> "curl:deb"
      [] s = "Dnf" -> "curl:rpm"
      [] s = "AppImageFallback" -> "curl:appimage"
      [] OTHER -> "<no download>"

InstallCmds(s) ==
    CASE s = "AptGet" -> {"apt-get:install-file"}
      [] s = "Dnf" -> {"dnf:install-file"}
      [] s = "AppImageFallback" -> {"chmod"}
      [] s = "PacmanAUR" -> {"yay:install", "paru:install"}
      [] OTHER -> {}

\* the install command of s comes after its download and after
\* verify_signature has returned, with no verification step outside
FetchVerifyInstall(s) ==
    \A i \in DOMAIN log : log[i] \in InstallCmds(s) =>
        /\ outcome # "None"
        /\ \E j \in 1..(i - 1) :
              /\ log[j] = ArtifactCmd(s)
              /\ \A k \in DOMAIN log : log[k] \in VerifyCmds => (j < k /\ k < i)

\* a run of s that got past its install step has removed the package file
\* after the install command
CleanupAfterInstall(s) ==
    pc \in {"success", "exited"} /\ installed =>
        \E i \in DOMAIN log, k \in DOMAIN log :
            log[i] \in InstallCmds(s) /\ log[k] = "rm:pkg" /\ i < k

\* C13 (as stated): AptGet, Dnf, PacmanAUR with a helper and
\* AppImageFallback all go fetch, verify, install, cleanup, and never
\* install before the download succeeded and verification returned.
C13_Original ==
    strategy \in {"AptGet", "Dnf", "PacmanAUR", "AppImageFallback"} =>
        /\ FetchVerifyInstall(strategy)
        /\ CleanupAfterInstall(strategy)

\* C13 (amended): AptGet and Dnf go fetch, verify, install, cleanup;
\* AppImageFallback goes fetch, verify, chmod and keeps the file; on these
\* three the install step never comes before the download succeeded and
\* verification returned.  PacmanAUR with a helper runs the helper only:
\* no download, no verification and no cleanup by the script.
C13_Amended ==
    /\ strategy \in Downloading => FetchVerifyInstall(strategy)
    /\ strategy \in {"AptGet", "Dnf"} => CleanupAfterInstall(strategy)
    /\ strategy = "AppImageFallback" => ~InLog("rm:pkg")
    /\ strategy = "PacmanAUR" =>
          /\ \A i \in DOMAIN log : log[i] \notin ArtifactCalls \cup VerifyCmds \cup {"rm:pkg"}
          /\ outcome = "None"

C13_Witness ==
    /\ strategy = "AptGet"
    /\ outcome = "Verified"
    /\ InLog("rm:pkg")
    /\ pc = "exited"
    /\ exitCode = 0

\* C14: with the repository file present the run takes the ManagedRepo
\* branch: index refresh, then install by name, with no request to the
\* release-asset, signature or key endpoints and no file written.
C14_ManagedRepo ==
    /\ (flags.repo /\ strategy # "None") => strategy = "ManagedRepo"
    /\ strategy = "ManagedRepo" =>
          /\ \A i \in DOMAIN log :
                log[i] \notin ArtifactCalls \cup {"curl:signature", "curl:key"}
          /\ files = {}
          /\ outcome = "None"
          /\ \A i \in DOMAIN log : log[i] = "apt-get:install-name" =>
                \E j \in 1..(i - 1) : log[j] = "apt-get:update"

C14_Witness ==
    /\ flags.repo /\ flags.apt
    /\ strategy = "ManagedRepo"
    /\ InLog("apt-get:install-name")
    /\ InLog("echo:success")
    /\ installed

\* C18: the final success message is printed only when the install
\* command of the selected strategy was run and returned 0.
C18_SuccessOnlyIfInstalled ==
    InLog("echo:success") => installed

\* C19: on the PacmanAUR branch yay is run whenever it is present, paru
\* only when yay is absent and paru present, and with neither no install
\* command is run, no success message is printed and the run exits 1.
C19_HelperPreference ==
    (strategy = "PacmanAUR" /\ "yay" \in DOMAIN probed) =>
        /\ probed["yay"] => (InLog("yay:install") /\ ~InLog("paru:install"))
        /\ (~probed["yay"] /\ probed["paru"]) =>
              (InLog("paru:install") /\ ~InLog("yay:install"))
        /\ (~probed["yay"] /\ ~probed["paru"]) =>
              /\ ~InLog("yay:install") /\ ~InLog("paru:install")
              /\ ~InLog("echo:success")
              /\ ~installed
              /\ pc = "exited" /\ exitCode = 1

C19_Witness ==
    /\ strategy = "PacmanAUR"
    /\ "yay" \in DOMAIN probed
    /\ probed["yay"] /\ probed["paru"]
    /\ InLog("yay:install")
    /\ exitCode = 0

\* ---- C15 ----
\* a setup run that follows a completed one as root, with the same key
\* served and downloaded intact
SecondSetupRun ==
    /\ setup.runs >= 2
    /\ setup.prev.root
    /\ setup.prev.exit = 0
    /\ probed["root"]
    /\ setup.keys[setup.runs] = setup.keys[setup.runs - 1]
    /\ "keyOk" \in DOMAIN probed
    /\ probed["keyOk"]

\* C15: running the repository setup a second time gets past the keyring
\* step instead of failing there, and leaves the keyring file and the
\* source list with the contents the first run gave them.
C15_Idempotent ==
    SecondSetupRun =>
        /\ err # "KeyImportFailed"
        /\ setup.keyring = setup.prev.keyring
        /\ (pc \in {"setup_update", "setup_install", "exited"}
                => setup.list = setup.prev.list)

\* ---- C16 ----
\* C16: a repository setup run that is not root stops with a
\* permission-denied failure, status 1, before it has run any command,
\* written any file or installed anything; the keyring and the source list
\* are as they were when the run started.
C16_NoRootNoEffect ==
    (setup.runs >= 1 /\ ~probed["root"]) =>
        /\ pc \in {"setup_root", "exited"}
        /\ log = <<>>
        /\ files = {}
        /\ ~installed
        /\ setup.keyring = setup.prev.keyring
        /\ setup.list = setup.prev.list
        /\ (pc = "exited" => err = "PermissionDenied" /\ exitCode = 1)

C16_Witness ==
    /\ setup.runs >= 1
    /\ ~probed["root"]
    /\ pc = "exited"
    /\ err = "PermissionDenied"

\* ---- C17 ----
\* C17: after the portable-executable fallback the file is executable, and
\* the PATH warning is printed exactly when the install directory is not
\* an entry of PATH.
C17_PathWarning ==
    (strategy = "AppImageFallback" /\ pc \in {"success", "exited"} /\ installed) =>
        /\ execBit
        /\ (InLog("warn:path") <=> ~probed["inPath"])

\* ---- C20 ----
\* the request asks for the landing page as the statement describes it
ClaimedBrowser(h) ==
    \E w \in {"Mozilla", "Chrome", "Safari"} : Includes(HeaderOrEmpty(h), w)

\* C20 as stated: GET / answers with the landing page exactly when the
\* User-Agent names a browser and the request has no raw parameter at all;
\* otherwise it answers what GET /install.sh answers.
C20_Original ==
    (pc = "responded" /\ http.path = "/") =>
        IF ClaimedBrowser(http.ua) /\ http.raw = Undefined
        THEN http.resp = LandingResponse
        ELSE http.resp = InstallShResponse

\* C20 amended: GET / answers with the landing page exactly when the
\* User-Agent contains Mozilla, Chrome or Safari and the raw parameter is
\* absent or empty; otherwise (another or no User-Agent, or a non-empty raw
\* value) it answers the install script as text/plain, the same response
\* as GET /install.sh.
C20_Amended ==
    (pc = "responded" /\ http.path = "/") =>
        /\ http.resp \in {LandingResponse, InstallShResponse}
        /\ (http.resp = LandingResponse
              <=> (ClaimedBrowser(http.ua) /\ http.raw \in {Undefined, ""}))
        /\ (http.resp = InstallShResponse
              => http.resp.type = "text/plain; charset=utf-8")

C20_Witness ==
    /\ pc = "responded"
    /\ http.path = "/"
    /\ http.ua = "Chrome/120"
    /\ http.raw = "0"
    /\ http.resp = InstallShResponse
====
